---- MODULE Spec2Model ----
(***************************************************************************)
(* Model of the methane-gene analysis scripts                              *)
(*   Scripts/03_downstream/analyze_methane_genes.py                         *)
(*   Scripts/03_downstream/visualize_results.py                             *)
(*                                                                          *)
(* Text is modelled as a sequence of tokens.  A token stands for a          *)
(* substring that the code never looks inside: a rank prefix ("d__"), a     *)
(* keyword ("pmoa"), a run of other characters ("A", "x"), one blank (" "), *)
(* or one delimiter (";", "[", "]").  The string operations of the code     *)
(* (split, strip, startswith, replace, lower, in, re.match) are modelled    *)
(* by what they do on such sequences.                                       *)
(***************************************************************************)
EXTENDS Integers, Sequences, FiniteSets, TLC

VARIABLES
    pc,             \* position of the function or entry point being run
    tax_string,     \* extract_taxonomy_levels: the lineage cell of one row
    levels,         \* extract_taxonomy_levels: the record returned
    description,    \* extract_gene_info / classify_methane_gene: the input
    gene_info,      \* extract_gene_info: (gene_name, species) returned
    gene_category,  \* classify_methane_gene: the category returned
    vis_argv,       \* visualize_results.main: len(sys.argv)
    vis_files,      \* visualize_results.main: which of the paths it tests exist
    detailed_df,    \* visualize_results: rows of the detailed table per species
    species_df,     \* visualize_results: num_hits per species (0: no row)
    artifacts,      \* visualize_results: the images saved, in order
    console,        \* what the entry point printed, in order
    disparity,      \* plot_procrustes_analysis: the Procrustes disparity
    correlation,    \* plot_procrustes_analysis: the Pearson correlation
    argv,           \* analyze_methane_genes.main: [len, total_reads] of sys.argv
    stats_file,     \* analyze_methane_genes.main: the bbduk statistics file as read
    input_file,     \* analyze_methane_genes.main: the DIAMOND result file as read
    singlem_file,   \* analyze_methane_genes.main: the SingleM OTU table file as read
    singlem_df,     \* parse_singlem_otu_table: the table returned, or None
    methane_genes,  \* analyze_gene_abundance: the table returned
    gene_report,    \* analyze_gene_abundance: the three reports it prints
    species_reads,  \* analyze_species_abundance: the table returned
    genus_abundance,    \* analyze_species_abundance: the genus-level table
    outputs,        \* analyze_methane_genes.main: the CSV files written, in order
    df,             \* analyze_methane_genes: the DIAMOND hit table, row by row
    total_reads_millions,   \* analyze_methane_genes: [num, den], num/den million
    gene_stats,     \* calculate_rpkm: the table returned, row by row
    exit_code       \* the exit status of the entry point ("running" until it ends)

taxVars  == <<tax_string, levels>>
descVars == <<description, gene_info, gene_category>>
visVars  == <<vis_argv, vis_files, detailed_df, species_df, artifacts,
              disparity, correlation>>
mainVars == <<argv, stats_file, input_file, singlem_file, singlem_df,
              methane_genes, gene_report, species_reads, genus_abundance,
              outputs>>
rpkmVars == <<df, total_reads_millions, gene_stats>>
vars     == <<pc, exit_code, console, taxVars, descVars, visVars, rpkmVars,
              mainVars>>

----------------------------------------------------------------------------
(* String helpers                                                          *)

\* str.strip(): blanks removed at both ends
RECURSIVE LStrip(_)
LStrip(s) == IF s # <<>> /\ Head(s) = " " THEN LStrip(Tail(s)) ELSE s

RECURSIVE RStrip(_)
RStrip(s) ==
    IF s # <<>> /\ s[Len(s)] = " " THEN RStrip(SubSeq(s, 1, Len(s) - 1)) ELSE s

Strip(s) == RStrip(LStrip(s))

\* str.split(sep): the parts between the separators; never an empty list
RECURSIVE SplitFrom(_, _, _)
SplitFrom(s, sep, cur) ==
    IF s = <<>> THEN <<cur>>
    ELSE IF Head(s) = sep THEN <<cur>> \o SplitFrom(Tail(s), sep, <<>>)
    ELSE SplitFrom(Tail(s), sep, Append(cur, Head(s)))

Split(s, sep) == SplitFrom(s, sep, <<>>)

\* str.startswith(prefix)
StartsWith(s, prefix) == s # <<>> /\ Head(s) = prefix

\* str.replace(old, ''): every occurrence of old is removed
RECURSIVE RemoveAll(_, _)
RemoveAll(s, old) ==
    IF s = <<>> THEN <<>>
    ELSE IF Head(s) = old THEN RemoveAll(Tail(s), old)
    ELSE <<Head(s)>> \o RemoveAll(Tail(s), old)

\* sep.join(parts)
RECURSIVE Join(_, _)
Join(parts, sep) ==
    IF parts = <<>> THEN <<>>
    ELSE IF Len(parts) = 1 THEN parts[1]
    ELSE parts[1] \o <<sep>> \o Join(Tail(parts), sep)

----------------------------------------------------------------------------
(* Taxonomy parser: parse_singlem_otu_table.extract_taxonomy_levels        *)

Ranks == {"domain", "phylum", "class", "order", "family", "genus", "species"}

\* the if/elif chain, in its order: prefix tested, rank assigned
RankRules == <<
    [prefix |-> "d__", rank |-> "domain"],
    [prefix |-> "p__", rank |-> "phylum"],
    [prefix |-> "c__", rank |-> "class"],
    [prefix |-> "o__", rank |-> "order"],
    [prefix |-> "f__", rank |-> "family"],
    [prefix |-> "g__", rank |-> "genus"],
    [prefix |-> "s__", rank |-> "species"] >>

Unknown == <<"Unknown">>
Root == <<"Root">>

DefaultLevels == [r \in Ranks |-> Unknown]

\* the chain with a final else that files an unmatched part under species
RECURSIVE ApplyRulesKeepingUnmatched(_, _, _)
ApplyRulesKeepingUnmatched(lv, part, i) ==
    IF i > Len(RankRules) THEN [lv EXCEPT !["species"] = part]
    ELSE IF StartsWith(part, RankRules[i].prefix)
         THEN [lv EXCEPT ![RankRules[i].rank] =
                   RemoveAll(part, RankRules[i].prefix)]
         ELSE ApplyRulesKeepingUnmatched(lv, part, i + 1)

\* one pass of the loop body: the first rule whose prefix the part starts
\* with assigns its rank; a part that matches no rule changes nothing
RECURSIVE ApplyRules(_, _, _)
ApplyRules(lv, part, i) ==
    IF i > Len(RankRules) THEN lv
    ELSE IF StartsWith(part, RankRules[i].prefix)
         THEN [lv EXCEPT ![RankRules[i].rank] =
                   RemoveAll(part, RankRules[i].prefix)]
         ELSE ApplyRules(lv, part, i + 1)

RECURSIVE ParseParts(_, _)
ParseParts(lv, parts) ==
    IF parts = <<>> THEN lv
    ELSE ParseParts(ApplyRules(lv, Strip(Head(parts)), 1), Tail(parts))

\* tax_string is [isna |-> BOOLEAN, text |-> token sequence]
extract_taxonomy_levels(ts) ==
    IF ts.isna \/ ts.text = Root THEN DefaultLevels
    ELSE ParseParts(DefaultLevels, Split(ts.text, ";"))

----------------------------------------------------------------------------
(* Description classifier: extract_gene_info                               *)

\* Positions of the match of  ^(.+?)\s+\[(.+?)\]  when group 1 is d[1..i]:
\* \s+ takes the whole run of blanks after i (it is followed by "[", so no
\* shorter run can match), "[" stands at j, and the lazy group 2 ends before
\* the first "]" that leaves it at least one character, at k.
RECURSIVE BlankRunEnd(_, _)
BlankRunEnd(d, p) ==
    IF p <= Len(d) /\ d[p] = " " THEN BlankRunEnd(d, p + 1) ELSE p

RECURSIVE FirstClose(_, _)
FirstClose(d, p) ==
    IF p > Len(d) THEN 0
    ELSE IF d[p] = "]" THEN p
    ELSE FirstClose(d, p + 1)

\* the pattern with an end anchor: the bracket group must end the text
MatchAtAnchored(d, i) ==
    LET j == BlankRunEnd(d, i + 1)
        k == FirstClose(d, j + 2)
    IN  IF j > i + 1 /\ j <= Len(d) /\ d[j] = "[" /\ k # 0 /\ k = Len(d)
        THEN [ok |-> TRUE, i |-> i, j |-> j, k |-> k]
        ELSE [ok |-> FALSE, i |-> 0, j |-> 0, k |-> 0]

MatchAt(d, i) ==
    LET j == BlankRunEnd(d, i + 1)
        k == FirstClose(d, j + 2)
    IN  IF j > i + 1 /\ j <= Len(d) /\ d[j] = "[" /\ k # 0
        THEN [ok |-> TRUE, i |-> i, j |-> j, k |-> k]
        ELSE [ok |-> FALSE, i |-> 0, j |-> 0, k |-> 0]

\* re.match: the lazy group 1 grows from one character until the rest matches
RECURSIVE ReMatchFrom(_, _)
ReMatchFrom(d, i) ==
    IF i > Len(d) THEN [ok |-> FALSE, i |-> 0, j |-> 0, k |-> 0]
    ELSE IF MatchAt(d, i).ok THEN MatchAt(d, i)
    ELSE ReMatchFrom(d, i + 1)

ReMatch(d) == ReMatchFrom(d, 1)

extract_gene_info(d) ==
    LET m == ReMatch(d)
    IN  IF m.ok
        THEN [gene_name |-> Strip(SubSeq(d, 1, m.i)),
              species   |-> Strip(SubSeq(d, m.j + 1, m.k - 1))]
        ELSE [gene_name |-> d, species |-> Unknown]

----------------------------------------------------------------------------
(* Description classifier: classify_methane_gene                           *)

\* str.lower() on the tokens that carry upper-case letters
Lower(t) ==
    CASE t = "PmoA" -> "pmoa"
      [] t = "MmoR" -> "mmor"
      [] t = "Formate" -> "formate"
      [] OTHER -> t

LowerAll(d) == [n \in 1..Len(d) |-> Lower(d[n])]

\* x in desc_lower
Contains(d, x) == \E n \in 1..Len(d) : d[n] = x

\* any(x in desc_lower for x in keywords)
ContainsAny(d, keywords) == \E x \in keywords : Contains(d, x)

CatPMMO == "pMMO (Particulate methane monooxygenase)"
CatSMMO == "sMMO (Soluble methane monooxygenase)"
CatMmoR == "MmoR (MMO regulatory protein)"
CatMmoG == "MmoG (MMO chaperone)"
CatMCR == "MCR (Methyl-coenzyme M reductase)"
CatMDH == "MDH (Methanol dehydrogenase)"
CatFormaldehyde == "Formaldehyde metabolism"
CatFormate == "Formate metabolism"
CatNitrogen == "Nitrogen metabolism (related)"
CatOther == "Other"

\* the chain with the MmoR test moved behind the formate test
classify_formate_before_mmor(d) ==
    LET desc_lower == LowerAll(d)
    IN  IF ContainsAny(desc_lower, {"particulate methane monooxygenase", "pmoa"})
        THEN CatPMMO
        ELSE IF ContainsAny(desc_lower,
                    {"soluble methane monooxygenase", "mmox", "mmoy", "mmoz"})
        THEN CatSMMO
        ELSE IF Contains(desc_lower, "mmog") THEN CatMmoG
        ELSE IF ContainsAny(desc_lower,
                    {"methyl-coenzyme m reductase", "mcra", "mcrb", "mcrg"})
        THEN CatMCR
        ELSE IF Contains(desc_lower, "methanol dehydrogenase") THEN CatMDH
        ELSE IF Contains(desc_lower, "formaldehyde") THEN CatFormaldehyde
        ELSE IF Contains(desc_lower, "formate") THEN CatFormate
        ELSE IF Contains(desc_lower, "mmor") THEN CatMmoR
        ELSE IF ContainsAny(desc_lower, {"ammonia", "ammonium"}) THEN CatNitrogen
        ELSE CatOther

classify_methane_gene(d) ==
    LET desc_lower == LowerAll(d)
    IN  IF ContainsAny(desc_lower, {"particulate methane monooxygenase", "pmoa"})
        THEN CatPMMO
        ELSE IF ContainsAny(desc_lower,
                    {"soluble methane monooxygenase", "mmox", "mmoy", "mmoz"})
        THEN CatSMMO
        ELSE IF Contains(desc_lower, "mmor") THEN CatMmoR
        ELSE IF Contains(desc_lower, "mmog") THEN CatMmoG
        ELSE IF ContainsAny(desc_lower,
                    {"methyl-coenzyme m reductase", "mcra", "mcrb", "mcrg"})
        THEN CatMCR
        ELSE IF Contains(desc_lower, "methanol dehydrogenase") THEN CatMDH
        ELSE IF Contains(desc_lower, "formaldehyde") THEN CatFormaldehyde
        ELSE IF Contains(desc_lower, "formate") THEN CatFormate
        ELSE IF ContainsAny(desc_lower, {"ammonia", "ammonium"}) THEN CatNitrogen
        ELSE CatOther


----------------------------------------------------------------------------
(* Idle values of the variables a specification does not use                *)

IdleTax == tax_string = [isna |-> TRUE, text |-> <<>>] /\ levels = DefaultLevels

IdleDesc ==
    /\ description = <<>>
    /\ gene_info = [gene_name |-> <<>>, species |-> <<>>]
    /\ gene_category = ""

NotComputed == [computed |-> FALSE, defined |-> FALSE, num |-> 0, den |-> 1]

IdleVis ==
    /\ vis_argv = 0
    /\ vis_files = {}
    /\ detailed_df = <<>>
    /\ species_df = <<>>
    /\ artifacts = <<>>
    /\ console = <<>>
    /\ disparity = NotComputed
    /\ correlation = NotComputed

IdleRpkm ==
    /\ df = <<>>
    /\ total_reads_millions = [num |-> 1, den |-> 1]
    /\ gene_stats = <<>>

NoFile == [exists |-> FALSE, readable |-> FALSE, columns |-> {}, rows |-> <<>>]
None == [isnone |-> TRUE, rows |-> <<>>]
NoReport == [category_counts |-> <<>>, gene_counts |-> <<>>, key_genes |-> <<>>]

IdleMain ==
    /\ argv = [len |-> 0, total_reads |-> ""]
    /\ stats_file = NoFile
    /\ input_file = NoFile
    /\ singlem_file = NoFile
    /\ singlem_df = None
    /\ methane_genes = <<>>
    /\ gene_report = NoReport
    /\ species_reads = <<>>
    /\ genus_abundance = <<>>
    /\ outputs = <<>>

TaxFrame  == <<exit_code, console, descVars, visVars, rpkmVars, mainVars>>
DescFrame == <<exit_code, console, taxVars, visVars, rpkmVars, mainVars>>
VisFrame  == <<taxVars, descVars, rpkmVars, mainVars>>
RpkmFrame == <<exit_code, console, taxVars, descVars, visVars, mainVars>>
MainFrame == <<taxVars, descVars, visVars>>

----------------------------------------------------------------------------
(* SpecTax: extract_taxonomy_levels applied to one lineage cell            *)

MaxSegments == 2

Prefixes == {RankRules[i].prefix : i \in 1..Len(RankRules)}

\* Segments a lineage string is joined from: a prefix and a name; a prefix
\* with an empty name; a name that holds a prefix again; blanks around a
\* segment; segments without a recognized prefix.
WellFormedSegments ==
    {<<p, n>> : p \in Prefixes, n \in {"A", "B"}}
      \cup {<<"g__">>, <<"s__">>}
      \cup {<<"d__", "A", "d__">>, <<"s__", "A", "s__">>, <<"g__", "A", "s__">>}
      \cup {<<" ", "p__", "A">>, <<"d__", "B", " ">>}

MalformedSegments ==
    {<<"A">>, <<"k__", "A">>, <<>>, <<"A", "d__">>, Root}

SegmentPool == WellFormedSegments \cup MalformedSegments

SegmentLists == UNION {[1..n -> SegmentPool] : n \in 0..MaxSegments}

TaxInputs ==
    {[isna |-> TRUE, text |-> <<>>]}
      \cup {[isna |-> FALSE, text |-> Join(segs, ";")] : segs \in SegmentLists}

InitTax ==
    /\ pc = "call"
    /\ tax_string \in TaxInputs
    /\ levels = DefaultLevels
    /\ exit_code = "running"
    /\ console = <<>>
    /\ IdleDesc /\ IdleVis /\ IdleRpkm /\ IdleMain

ExtractTaxonomyLevels ==
    /\ pc = "call"
    /\ levels' = extract_taxonomy_levels(tax_string)
    /\ pc' = "return"
    /\ UNCHANGED <<tax_string, TaxFrame>>

NextTax == ExtractTaxonomyLevels

SpecTax == InitTax /\ [][NextTax]_vars

\* the parts the loop of extract_taxonomy_levels sees
StrippedParts(ts) ==
    LET parts == Split(ts.text, ";")
    IN  [n \in 1..Len(parts) |-> Strip(parts[n])]

Recognized(part) == part # <<>> /\ Head(part) \in Prefixes

RankPrefix(rank) ==
    RankRules[CHOOSE i \in 1..Len(RankRules) : RankRules[i].rank = rank].prefix

\* C1 (as stated): a lineage whose segments all carry a recognized prefix
\* parses to exactly seven ranks; a rank whose prefix occurs holds the name
\* (the text after the prefix) of a segment with that prefix, every other
\* rank is "Unknown"; "Root" and missing or empty input give all "Unknown".
C1_NamesAsWritten ==
    pc = "return" =>
        /\ DOMAIN levels = Ranks
        /\ (tax_string.isna \/ tax_string.text \in {Root, <<>>})
              => levels = DefaultLevels
        /\ LET parts == StrippedParts(tax_string)
           IN  (~tax_string.isna /\ \A n \in 1..Len(parts) : Recognized(parts[n]))
                 => \A r \in Ranks :
                      LET with == {n \in 1..Len(parts) :
                                      Head(parts[n]) = RankPrefix(r)}
                      IN  IF with = {} THEN levels[r] = Unknown
                          ELSE \E n \in with : levels[r] = Tail(parts[n])

\* the case C1 fails on: a recognized segment whose name holds its prefix again
C1_PrefixInName ==
    /\ pc = "return"
    /\ ~tax_string.isna
    /\ tax_string.text = <<"d__", "A", "d__">>
    /\ levels["domain"] = <<"A">>


----------------------------------------------------------------------------
(* SpecDesc: extract_gene_info and classify_methane_gene applied to one    *)
(* description                                                             *)

MaxKeywords == 2
MaxDescLen == 6

KeywordTokens ==
    {"particulate methane monooxygenase", "pmoa",
     "soluble methane monooxygenase", "mmox", "mmoy", "mmoz",
     "mmor", "mmog",
     "methyl-coenzyme m reductase", "mcra", "mcrb", "mcrg",
     "methanol dehydrogenase", "formaldehyde", "formate",
     "ammonia", "ammonium",
     "PmoA", "MmoR", "Formate", "x"}

BracketTokens == {"x", "y", " ", "[", "]"}

KeywordInputs == UNION {[1..n -> KeywordTokens] : n \in 0..MaxKeywords}
BracketInputs == UNION {[1..n -> BracketTokens] : n \in 0..MaxDescLen}

InitDesc ==
    /\ pc = "call"
    /\ description \in KeywordInputs \cup BracketInputs
    /\ gene_info = [gene_name |-> <<>>, species |-> <<>>]
    /\ gene_category = ""
    /\ exit_code = "running"
    /\ console = <<>>
    /\ IdleTax /\ IdleVis /\ IdleRpkm /\ IdleMain

ExtractGeneInfo ==
    /\ pc = "call"
    /\ gene_info' = extract_gene_info(description)
    /\ pc' = "gene_info"
    /\ UNCHANGED <<description, gene_category, DescFrame>>

ClassifyMethaneGene ==
    /\ pc = "call"
    /\ gene_category' = classify_methane_gene(description)
    /\ pc' = "classified"
    /\ UNCHANGED <<description, gene_info, DescFrame>>

NextDesc == ExtractGeneInfo \/ ClassifyMethaneGene

SpecDesc == InitDesc /\ [][NextDesc]_vars

\* the rule groups in the order the claim gives them
ClaimedGroups == <<
    [keywords |-> {"particulate methane monooxygenase", "pmoa"}, category |-> CatPMMO],
    [keywords |-> {"soluble methane monooxygenase", "mmox", "mmoy", "mmoz"},
     category |-> CatSMMO],
    [keywords |-> {"mmor"}, category |-> CatMmoR],
    [keywords |-> {"mmog"}, category |-> CatMmoG],
    [keywords |-> {"methyl-coenzyme m reductase", "mcra", "mcrb", "mcrg"},
     category |-> CatMCR],
    [keywords |-> {"methanol dehydrogenase"}, category |-> CatMDH],
    [keywords |-> {"formaldehyde"}, category |-> CatFormaldehyde],
    [keywords |-> {"formate"}, category |-> CatFormate],
    [keywords |-> {"ammonia", "ammonium"}, category |-> CatNitrogen] >>

GroupsMatching(d) ==
    {g \in 1..Len(ClaimedGroups) :
        \E n \in 1..Len(d) : Lower(d[n]) \in ClaimedGroups[g].keywords}

\* C2: the category is that of the earliest rule group with a keyword in the
\* lower-cased description, and "Other" when no group has one.
C2_FirstMatchWins ==
    pc = "classified" =>
        LET hit == GroupsMatching(description)
        IN  IF hit = {} THEN gene_category = CatOther
            ELSE \E g \in hit :
                    /\ \A h \in hit : g <= h
                    /\ gene_category = ClaimedGroups[g].category

\* C2 witness: keywords of two groups, the later one written first
C2_TwoGroupsClassified ==
    /\ pc = "classified"
    /\ description = <<"formate", "MmoR">>
    /\ Cardinality(GroupsMatching(description)) = 2
    /\ gene_category = CatMmoR

BracketFree(s) == \A n \in 1..Len(s) : s[n] \notin {"[", "]"}
Trimmed(s) == s # <<>> /\ Head(s) # " " /\ s[Len(s)] # " "

\* C3 (as stated): a description "X [Y]" gives gene name X and species Y; a
\* description that does not end with a bracket gives species "Unknown" and
\* the whole description as gene name.
C3_TrailingBracket ==
    pc = "gene_info" =>
        LET d == description
        IN  /\ \A j \in 3..Len(d) :
                 LET X == SubSeq(d, 1, j - 2)
                     Y == SubSeq(d, j + 1, Len(d) - 1)
                 IN  (/\ d[j] = "[" /\ d[j - 1] = " " /\ d[Len(d)] = "]"
                      /\ BracketFree(X) /\ Trimmed(X)
                      /\ BracketFree(Y) /\ Trimmed(Y))
                       => gene_info = [gene_name |-> X, species |-> Y]
            /\ (d = <<>> \/ d[Len(d)] # "]")
                 => gene_info = [gene_name |-> d, species |-> Unknown]

\* a bracket group the pattern can match: text, blanks, "[", text, "]"
HasBracketGroup(d) ==
    \E j \in 3..Len(d) : \E k \in (j + 2)..Len(d) :
        d[j] = "[" /\ d[j - 1] = " " /\ d[k] = "]"

\* C3 (amended): a description that begins "X [Y]", whatever follows the
\* bracket, gives gene name X and species Y; a description without any
\* bracket group after leading text gives "Unknown" and the whole description.
C3_FirstBracketGroup ==
    pc = "gene_info" =>
        LET d == description
        IN  /\ \A j \in 3..Len(d) : \A k \in (j + 2)..Len(d) :
                 LET X == SubSeq(d, 1, j - 2)
                     Y == SubSeq(d, j + 1, k - 1)
                 IN  (/\ d[j] = "[" /\ d[j - 1] = " " /\ d[k] = "]"
                      /\ BracketFree(X) /\ Trimmed(X)
                      /\ BracketFree(Y) /\ Trimmed(Y))
                       => gene_info = [gene_name |-> X, species |-> Y]
            /\ ~HasBracketGroup(d)
                 => gene_info = [gene_name |-> d, species |-> Unknown]

\* C3 witness: the bracket group is followed by more text
C3_TextAfterBracket ==
    /\ pc = "gene_info"
    /\ description = <<"x", " ", "[", "y", "]", "x">>
    /\ gene_info = [gene_name |-> <<"x">>, species |-> <<"y">>]


----------------------------------------------------------------------------
(* Visualizer: visualize_results.py                                        *)

MaxCount == 2
MaxDisparity == 1
MinCommonSpecies == 3

SpeciesNames == {"sp1", "sp2", "sp3"}

RECURSIVE SumOver(_, _)
SumOver(S, f) ==
    IF S = {} THEN 0
    ELSE LET x == CHOOSE y \in S : TRUE
         IN  f[x] + SumOver(S \ {x}, f)

\* set(diamond_species.index) & set(singlem_species.index)
CommonSpecies(detailed, species) ==
    {sp \in SpeciesNames : detailed[sp] > 0 /\ species[sp] > 0}

\* len(common_species) < 2: the threshold one too low
TooFewCommonBelowTwo(common) == Cardinality(common) < 2

\* len(common_species) < 3
TooFewCommon(common) == Cardinality(common) < MinCommonSpecies

\* np.corrcoef(diamond_abund, singlem_abund)[0, 1] on the two vectors over the
\* common species.  Dividing a vector by its (positive) sum changes neither
\* the coefficient nor whether it is defined.  The value is num / sqrt(den),
\* num = n*Sxy - Sx*Sy, den = (n*Sxx - Sx^2) * (n*Syy - Sy^2); with a constant
\* vector den = 0 and numpy returns nan.
Pearson(common, x, y) ==
    LET n   == Cardinality(common)
        Sx  == SumOver(common, x)
        Sy  == SumOver(common, y)
        Sxy == SumOver(common, [sp \in common |-> x[sp] * y[sp]])
        Sxx == SumOver(common, [sp \in common |-> x[sp] * x[sp]])
        Syy == SumOver(common, [sp \in common |-> y[sp] * y[sp]])
        vx  == n * Sxx - Sx * Sx
        vy  == n * Syy - Sy * Sy
    IN  [computed |-> TRUE, defined |-> vx * vy # 0,
         num |-> n * Sxy - Sx * Sy, den |-> vx * vy]

\* scipy.spatial.procrustes returns a sum of squared residuals; its value is
\* not computed here, only that it is some number >= 0
DisparityValues ==
    {[computed |-> TRUE, defined |-> TRUE, num |-> v, den |-> 1] :
        v \in 0..MaxDisparity}

VisPaths == {"output_dir", "detailed_file", "species_file", "rpkm_file"}

InitVis ==
    /\ pc = "start"
    /\ exit_code = "running"
    /\ vis_argv \in 1..3
    /\ vis_files \in SUBSET VisPaths
    /\ ("output_dir" \notin vis_files => vis_files = {})
    /\ detailed_df = <<>>
    /\ species_df = <<>>
    /\ artifacts = <<>>
    /\ console = <<>>
    /\ disparity = NotComputed
    /\ correlation = NotComputed
    /\ IdleTax /\ IdleDesc /\ IdleRpkm /\ IdleMain

VisExit(msg) ==
    /\ console' = Append(console, msg)
    /\ exit_code' = "1"
    /\ pc' = "exited"

\* main: usage check
VisCheckArgs ==
    /\ pc = "start"
    /\ IF vis_argv < 2
       THEN VisExit("Usage")
       ELSE /\ pc' = "check_dir"
            /\ UNCHANGED <<console, exit_code>>
    /\ UNCHANGED <<vis_argv, vis_files, detailed_df, species_df, artifacts,
                   disparity, correlation, VisFrame>>

\* main: the output directory must exist
VisCheckDir ==
    /\ pc = "check_dir"
    /\ IF "output_dir" \notin vis_files
       THEN VisExit("ERROR: Output directory not found")
       ELSE /\ pc' = "check_files"
            /\ console' = Append(console, "VISUALIZING RESULTS")
            /\ UNCHANGED exit_code
    /\ UNCHANGED <<vis_argv, vis_files, detailed_df, species_df, artifacts,
                   disparity, correlation, VisFrame>>

\* the file checks with only the first of the three tables tested
VisCheckFilesDetailedOnly ==
    /\ pc = "check_files"
    /\ IF "detailed_file" \notin vis_files
       THEN VisExit("ERROR: detailed_file not found")
       ELSE /\ pc' = "load"
            /\ UNCHANGED <<console, exit_code>>
    /\ UNCHANGED <<vis_argv, vis_files, detailed_df, species_df, artifacts,
                   disparity, correlation, VisFrame>>

\* main: the three tables must exist
VisCheckFiles ==
    /\ pc = "check_files"
    /\ IF "detailed_file" \notin vis_files
       THEN VisExit("ERROR: detailed_file not found")
       ELSE IF "species_file" \notin vis_files
       THEN VisExit("ERROR: species_file not found")
       ELSE IF "rpkm_file" \notin vis_files
       THEN VisExit("ERROR: rpkm_file not found")
       ELSE /\ pc' = "load"
            /\ UNCHANGED <<console, exit_code>>
    /\ UNCHANGED <<vis_argv, vis_files, detailed_df, species_df, artifacts,
                   disparity, correlation, VisFrame>>

\* main: pd.read_csv of the tables; the files hold any species counts
VisLoadTables ==
    /\ pc = "load"
    /\ detailed_df' \in [SpeciesNames -> 0..MaxCount]
    /\ species_df' \in [SpeciesNames -> 0..MaxCount]
    /\ console' = Append(console, "Loaded")
    /\ pc' = "plot_category"
    /\ UNCHANGED <<vis_argv, vis_files, artifacts, disparity, correlation,
                   exit_code, VisFrame>>

\* a plot function that renders and saves its image
SavePlot(at, image, next) ==
    /\ pc = at
    /\ artifacts' = Append(artifacts, image)
    /\ console' = Append(console, "Created: " \o image)
    /\ pc' = next
    /\ UNCHANGED <<vis_argv, vis_files, detailed_df, species_df, disparity,
                   correlation, exit_code, VisFrame>>

PlotGeneCategoryContribution ==
    SavePlot("plot_category", "gene_category_contribution.png", "plot_species")

PlotSpeciesContribution ==
    SavePlot("plot_species", "species_contribution.png", "plot_procrustes")

PlotProcrustesAnalysis ==
    /\ pc = "plot_procrustes"
    /\ LET common == CommonSpecies(detailed_df, species_df)
       IN  IF TooFewCommon(common)
           THEN /\ console' = Append(console,
                     "Warning: Only " \o ToString(Cardinality(common))
                       \o " common species found. Skipping Procrustes analysis."
                       \o " Requires at least 3 common species.")
                /\ UNCHANGED <<artifacts, disparity, correlation>>
           ELSE /\ disparity' \in DisparityValues
                /\ correlation' = Pearson(common, detailed_df, species_df)
                /\ artifacts' = Append(artifacts, "procrustes_analysis.png")
                /\ console' =
                     Append(console, "Created: procrustes_analysis.png")
    /\ pc' = "plot_heatmap"
    /\ UNCHANGED <<vis_argv, vis_files, detailed_df, species_df, exit_code,
                   VisFrame>>

PlotGeneRpkmHeatmap ==
    SavePlot("plot_heatmap", "gene_rpkm_heatmap.png", "report")

\* main: the closing banner, then the script ends
VisReportComplete ==
    /\ pc = "report"
    /\ console' = Append(console, "VISUALIZATION COMPLETE")
    /\ exit_code' = "0"
    /\ pc' = "complete"
    /\ UNCHANGED <<vis_argv, vis_files, detailed_df, species_df, artifacts,
                   disparity, correlation, VisFrame>>

NextVis ==
    \/ VisCheckArgs
    \/ VisCheckDir
    \/ VisCheckFiles
    \/ VisLoadTables
    \/ PlotGeneCategoryContribution
    \/ PlotSpeciesContribution
    \/ PlotProcrustesAnalysis
    \/ PlotGeneRpkmHeatmap
    \/ VisReportComplete

SpecVis == InitVis /\ [][NextVis]_vars

Printed(msg) == \E n \in 1..Len(console) : console[n] = msg
Saved(image) == \E n \in 1..Len(artifacts) : artifacts[n] = image

AfterProcrustes == pc \in {"plot_heatmap", "report", "complete"}

SkipWarning(n) ==
    "Warning: Only " \o ToString(n)
      \o " common species found. Skipping Procrustes analysis."
      \o " Requires at least 3 common species."

\* C4: with fewer than 3 common species the reconciliation is skipped: no
\* disparity, no correlation, no reconciliation image, the skip and its
\* reason are printed, the run has not failed, and the run that completes
\* has rendered the RPKM heatmap and ends with status 0.
C4_SkipBelowThree ==
    LET common == CommonSpecies(detailed_df, species_df)
    IN  (AfterProcrustes /\ Cardinality(common) < 3) =>
            /\ disparity = NotComputed
            /\ correlation = NotComputed
            /\ ~Saved("procrustes_analysis.png")
            /\ Printed(SkipWarning(Cardinality(common)))
            /\ exit_code # "1"
            /\ pc = "complete" =>
                  /\ Saved("gene_rpkm_heatmap.png")
                  /\ Printed("VISUALIZATION COMPLETE")
                  /\ exit_code = "0"

\* C4 witness: a completed run that skipped with two common species
C4_SkippedRunCompleted ==
    /\ pc = "complete"
    /\ Cardinality(CommonSpecies(detailed_df, species_df)) = 2
    /\ ~Saved("procrustes_analysis.png")
    /\ Saved("gene_rpkm_heatmap.png")

\* C5 (as stated): with 3 or more common species a disparity >= 0 is returned
\* and the correlation is a defined value in [-1, 1].
C5_StatisticsDefined ==
    (AfterProcrustes /\ Cardinality(CommonSpecies(detailed_df, species_df)) >= 3)
      => /\ disparity.computed /\ disparity.defined /\ disparity.num >= 0
         /\ correlation.computed /\ correlation.defined
         /\ correlation.num * correlation.num <= correlation.den

\* the case C5 fails on: equal counts over the common species
C5_EqualCountsNaN ==
    /\ AfterProcrustes
    /\ detailed_df = [sp \in SpeciesNames |-> 1]
    /\ correlation.computed /\ ~correlation.defined


----------------------------------------------------------------------------
(* RPKM: calculate_rpkm                                                    *)
(* A hit is [query_id, length, description]; pident is carried through by  *)
(* the code and is not modelled.  Real numbers are kept as fractions       *)
(* [num, den]; den = 0 is the division by zero, which pandas answers with  *)
(* an infinite value instead of an exception.                              *)

\* rows of df with gene_category != 'Other', in row order
RECURSIVE MethaneRows(_)
MethaneRows(rows) ==
    IF rows = <<>> THEN <<>>
    ELSE IF classify_methane_gene(Head(rows).description) # CatOther
         THEN <<Head(rows)>> \o MethaneRows(Tail(rows))
         ELSE MethaneRows(Tail(rows))

\* the filter left out: every row of df is kept
AllRows(rows) == rows

\* methane_genes = df[df['gene_category'] != 'Other']
methane_genes_of(rows) == MethaneRows(rows)

\* groupby('gene_name').agg: one pass over the rows, one accumulator per gene
\* name: the query ids seen, the sum of the lengths, the number of rows
RECURSIVE GroupByGene(_, _)
GroupByGene(rows, acc) ==
    IF rows = <<>> THEN acc
    ELSE LET h == Head(rows)
             g == extract_gene_info(h.description).gene_name
             old == IF g \in DOMAIN acc THEN acc[g]
                    ELSE [queries |-> {}, length_sum |-> 0, rows |-> 0]
             new == [queries |-> old.queries \cup {h.query_id},
                     length_sum |-> old.length_sum + h.length,
                     rows |-> old.rows + 1]
         IN  GroupByGene(Tail(rows),
                 [k \in DOMAIN acc \cup {g} |-> IF k = g THEN new ELSE acc[k]])

\* one row of gene_stats: read_count = nunique(query_id), length = mean,
\* rpkm = (read_count * 1000) / (length * total_reads_millions)
GeneStatsRow(g, a, trm) ==
    [gene_name  |-> g,
     read_count |-> Cardinality(a.queries),
     length     |-> [num |-> a.length_sum, den |-> a.rows],
     rpkm       |-> [num |-> Cardinality(a.queries) * 1000 * a.rows * trm.den,
                     den |-> a.length_sum * trm.num,
                     negzero |-> a.length_sum = 0 /\ trm.num < 0]]

\* Order of two rpkm values as floats.  num > 0 always; den > 0 is a positive
\* number, den < 0 a negative one, den = 0 is +inf, or -inf when the zero
\* comes from 0.0 * negative.
RpkmClass(v) ==
    IF v.den > 0 THEN 2
    ELSE IF v.den < 0 THEN 1
    ELSE IF v.negzero THEN 0 ELSE 3

RpkmLess(a, b) ==
    IF RpkmClass(a) # RpkmClass(b) THEN RpkmClass(a) < RpkmClass(b)
    ELSE IF a.den = 0 THEN FALSE
    ELSE a.num * b.den < b.num * a.den

\* sort_values('rpkm', ascending=False): the rows in descending order; the
\* order among equal values is whatever the sort leaves
SortedByRpkm(rowset) ==
    {t \in [1..Cardinality(rowset) -> rowset] :
        /\ \A i, j \in DOMAIN t : i # j => t[i] # t[j]
        /\ \A i, j \in DOMAIN t : i < j => ~RpkmLess(t[i].rpkm, t[j].rpkm)}

calculate_rpkm(rows, trm) ==
    LET acc == GroupByGene(methane_genes_of(rows), <<>>)
    IN  SortedByRpkm({GeneStatsRow(g, acc[g], trm) : g \in DOMAIN acc})


----------------------------------------------------------------------------
(* SpecRpkm: calculate_rpkm applied to one hit table                       *)

MaxHits == 2
MaxLength == 2

QueryIds == {"q1", "q2"}

\* descriptions of hits: a marker gene with its species; a protein of no
\* category; the same protein name with a keyword in the species text; a
\* description without brackets
DescPool ==
    { <<"pmoa", " ", "[", "sp1", "]">>,
      <<"x", " ", "[", "sp2", "]">>,
      <<"x", " ", "[", "ammonia", "]">>,
      <<"formate", " ", "MmoR">> }

Hits == [query_id : QueryIds, length : 0..MaxLength, description : DescPool]

\* a hit table has at least one row: pd.read_csv raises on a file without rows
HitTables == UNION {[1..n -> Hits] : n \in 1..MaxHits}

\* total_reads_millions as the entry point can pass it: -1, 0, 0.5, 2
TotalReadsValues ==
    {[num |-> -1, den |-> 1], [num |-> 0, den |-> 1],
     [num |-> 1, den |-> 2], [num |-> 2, den |-> 1]}

InitRpkm ==
    /\ pc = "call"
    /\ exit_code = "running"
    /\ df \in HitTables
    /\ total_reads_millions \in TotalReadsValues
    /\ gene_stats = <<>>
    /\ console = <<>>
    /\ IdleTax /\ IdleDesc /\ IdleVis /\ IdleMain

CalculateRpkm ==
    /\ pc = "call"
    /\ gene_stats' \in calculate_rpkm(df, total_reads_millions)
    /\ pc' = "return"
    /\ UNCHANGED <<df, total_reads_millions, RpkmFrame>>

NextRpkm == CalculateRpkm

SpecRpkm == InitRpkm /\ [][NextRpkm]_vars

GeneNameOf(h) == extract_gene_info(h.description).gene_name

\* the hits classified other than "Other", and those of one gene name
NonOtherHits == {i \in 1..Len(df) : classify_methane_gene(df[i].description) # CatOther}
HitsOfGene(g) == {i \in NonOtherHits : GeneNameOf(df[i]) = g}

\* C6: one record per gene name with a hit classified other than "Other";
\* read_count is the number of distinct query ids and length the mean
\* alignment length over that gene's non-"Other" hits; rpkm is
\* read_count * 1000 / (length * total_reads_millions) wherever that quotient
\* exists, and is not negative when length > 0 and total_reads_millions > 0.
C6_RpkmTable ==
    pc = "return" =>
        LET trm == total_reads_millions
        IN  /\ {gene_stats[n].gene_name : n \in 1..Len(gene_stats)}
                 = {GeneNameOf(df[i]) : i \in NonOtherHits}
            /\ \A m, n \in 1..Len(gene_stats) :
                 gene_stats[m].gene_name = gene_stats[n].gene_name => m = n
            /\ \A n \in 1..Len(gene_stats) :
                 LET r == gene_stats[n]
                     of == HitsOfGene(r.gene_name)
                 IN  /\ of # {}
                     /\ r.read_count = Cardinality({df[i].query_id : i \in of})
                     /\ r.length.den = Cardinality(of)
                     /\ r.length.num = SumOver(of, [i \in of |-> df[i].length])
                     /\ (r.length.num # 0 /\ trm.num # 0) =>
                           /\ r.rpkm.den # 0
                           /\ r.rpkm.num * r.length.num * trm.num
                                = r.read_count * 1000 * r.length.den * trm.den
                                    * r.rpkm.den
                     /\ (r.length.num > 0 /\ trm.num > 0) =>
                           r.rpkm.num >= 0 /\ r.rpkm.den > 0

\* C6 witness: gene name "x" has a hit classified "Other" and one that is
\* not; its record counts only the latter
C6_MixedGeneCounted ==
    /\ pc = "return"
    /\ df = << [query_id |-> "q1", length |-> 2,
                description |-> <<"x", " ", "[", "ammonia", "]">>],
               [query_id |-> "q2", length |-> 1,
                description |-> <<"x", " ", "[", "sp2", "]">>] >>
    /\ total_reads_millions = [num |-> 2, den |-> 1]
    /\ Len(gene_stats) = 1
    /\ gene_stats[1].read_count = 1
    /\ gene_stats[1].length = [num |-> 2, den |-> 1]
    /\ gene_stats[1].rpkm.num = 1000 /\ gene_stats[1].rpkm.den = 4

\* C7 (as stated): a gene group whose mean alignment length is 0 gets no
\* division by zero: no undefined or infinite rpkm is emitted for it.
C7_ZeroLengthGuarded ==
    pc = "return" =>
        \A n \in 1..Len(gene_stats) :
            gene_stats[n].length.num = 0 => gene_stats[n].rpkm.den # 0


----------------------------------------------------------------------------
(* Analysis entry point: analyze_methane_genes.py                          *)

RECURSIVE GCD(_, _)
GCD(a, b) == IF b = 0 THEN a ELSE GCD(b, a % b)

Abs(x) == IF x < 0 THEN -x ELSE x

\* the fraction num/den in lowest terms
Fraction(num, den) ==
    LET g == GCD(Abs(num), den)
    IN  [num |-> num \div g, den |-> den \div g]

\* float(sys.argv[3]): the texts tried, and the value of each that parses
FloatTexts == {"2", "0.5", "0", "-1"}
ParseFloat(text) ==
    CASE text = "2" -> [num |-> 2, den |-> 1]
      [] text = "0.5" -> [num |-> 1, den |-> 2]
      [] text = "0" -> [num |-> 0, den |-> 1]
      [] text = "-1" -> [num |-> -1, den |-> 1]

\* int(line.split()[1])
IntTexts == {"2000000", "500000", "0"}
ParseInt(text) ==
    CASE text = "2000000" -> 2000000
      [] text = "500000" -> 500000
      [] text = "0" -> 0

\* line.startswith('#Total'), on a line given as its fields
StartsWithTotal(line) == line # <<>> /\ Head(line) = "#Total"

\* the for/else over the lines: the first line that starts with '#Total'
\* decides; 0 when there is none
RECURSIVE FirstTotalLine(_, _)
FirstTotalLine(lines, n) ==
    IF n > Len(lines) THEN 0
    ELSE IF StartsWithTotal(lines[n]) THEN n
    ELSE FirstTotalLine(lines, n + 1)

TotalLine(lines) == FirstTotalLine(lines, 1)

\* the same with a missing statistics file read as one million reads
DetermineTotalReadsDefaulting(args, stats) ==
    IF args.len > 3 /\ args.total_reads \in FloatTexts
    THEN [outcome |-> "ok", value |-> ParseFloat(args.total_reads),
          message |-> "Using provided total reads"]
    ELSE [outcome |-> "ok", value |-> [num |-> 1, den |-> 1],
          message |-> "Auto-detected from bbduk stats"]

\* total_reads_millions of lines 348-370:
\* [outcome |-> "ok" | "exit" | "raise", value, message]
DetermineTotalReads(args, stats) ==
    IF args.len > 3
    THEN IF args.total_reads \in FloatTexts
         THEN [outcome |-> "ok", value |-> ParseFloat(args.total_reads),
               message |-> "Using provided total reads"]
         ELSE [outcome |-> "raise", value |-> [num |-> 0, den |-> 1],
               message |-> "Traceback: ValueError in main: " \o args.total_reads]
    ELSE IF ~stats.exists
    THEN [outcome |-> "exit", value |-> [num |-> 0, den |-> 1],
          message |-> "ERROR: BBduk stats file not found; provide total_reads_millions"]
    ELSE LET n == TotalLine(stats.rows)
         IN  IF n = 0
             THEN [outcome |-> "exit", value |-> [num |-> 0, den |-> 1],
                   message |-> "ERROR: Could not find #Total line"]
             ELSE IF Len(stats.rows[n]) < 2
             THEN [outcome |-> "raise", value |-> [num |-> 0, den |-> 1],
                   message |-> "Traceback: IndexError in main"]
             ELSE IF stats.rows[n][2] \notin IntTexts
             THEN [outcome |-> "raise", value |-> [num |-> 0, den |-> 1],
                   message |-> "Traceback: ValueError in main: " \o stats.rows[n][2]]
             ELSE [outcome |-> "ok",
                   value |-> Fraction(ParseInt(stats.rows[n][2]), 1000000),
                   message |-> "Auto-detected from bbduk stats"]


\* Exceptions the body of parse_singlem_otu_table can raise.  All of them are
\* subclasses of Exception.
BodyException(file) ==
    IF ~file.exists THEN "FileNotFoundError"
    ELSE IF ~file.readable THEN "ParserError"
    ELSE IF "taxonomy" \notin file.columns THEN "KeyError"
    ELSE IF \E n \in 1..Len(file.rows) :
              ~file.rows[n].taxonomy.isna /\ ~file.rows[n].taxonomy.isstr
    THEN "AttributeError"
    ELSE "none"

\* the rows with the seven rank columns appended
WithLevels(rows) ==
    [n \in 1..Len(rows) |->
        [taxonomy |-> rows[n].taxonomy, num_hits |-> rows[n].num_hits,
         coverage |-> rows[n].coverage,
         levels |-> extract_taxonomy_levels(rows[n].taxonomy)]]

\* the handlers with "except Exception" left out
CaughtOnlyFileNotFound(exception) == exception = "FileNotFoundError"

\* except FileNotFoundError / except Exception
Caught(exception) ==
    exception = "FileNotFoundError"
      \/ exception \in {"ParserError", "KeyError", "AttributeError"}

\* [raised, table, warning]: what the call leaves its caller with
parse_singlem_otu_table(file) ==
    LET e == BodyException(file)
    IN  IF e = "none"
        THEN [raised |-> "none", warning |-> "",
              table |-> [isnone |-> FALSE, rows |-> WithLevels(file.rows)]]
        ELSE IF ~Caught(e)
        THEN [raised |-> e, warning |-> "", table |-> None]
        ELSE IF e = "FileNotFoundError"
        THEN [raised |-> "none", table |-> None,
              warning |-> "WARNING: SingleM file not found: singlem_file"]
        ELSE [raised |-> "none", table |-> None,
              warning |-> "WARNING: Error parsing SingleM file: " \o e]

\* analyze_gene_abundance: the derived columns, then the rows kept
WithGeneColumns(rows) ==
    [n \in 1..Len(rows) |->
        [query_id |-> rows[n].query_id, length |-> rows[n].length,
         description |-> rows[n].description,
         gene_name |-> extract_gene_info(rows[n].description).gene_name,
         species |-> extract_gene_info(rows[n].description).species,
         gene_category |-> classify_methane_gene(rows[n].description)]]

\* the rows returned without the filter on the category
analyze_gene_abundance_unfiltered(rows) == WithGeneColumns(rows)

analyze_gene_abundance(rows) ==
    SelectSeq(WithGeneColumns(rows), LAMBDA r : r.gene_category # CatOther)

\* sort_values(..., ascending=False) on a count column; the order among equal
\* counts is whatever the sort leaves
SortedByCount(rowset, column) ==
    {t \in [1..Cardinality(rowset) -> rowset] :
        /\ \A i, j \in DOMAIN t : i # j => t[i] # t[j]
        /\ \A i, j \in DOMAIN t : i < j => t[i][column] >= t[j][column]}

\* analyze_gene_abundance, lines 134-139: distinct query ids per category
\* of the rows kept, each with its share of the distinct query ids of all
\* rows kept, sorted by count
CategoryCounts(rows) ==
    LET mg == analyze_gene_abundance(rows)
        idx == 1..Len(mg)
        in(c) == {n \in idx : mg[n].gene_category = c}
        count(c) == Cardinality({mg[n].query_id : n \in in(c)})
        total == Cardinality({mg[n].query_id : n \in idx})
    IN  SortedByCount(
            {[gene_category |-> c, count |-> count(c),
              pct |-> Fraction(count(c) * 100, total)]
                : c \in {mg[n].gene_category : n \in idx}},
            "count")

\* .head(20)
TopGenes == 20
HeadOf(t, n) == SubSeq(t, 1, IF Len(t) < n THEN Len(t) ELSE n)

\* analyze_gene_abundance, line 144: distinct query ids per gene name of the
\* rows kept, sorted by count, the first 20
GeneCounts(rows) ==
    LET mg == analyze_gene_abundance(rows)
        idx == 1..Len(mg)
        count(g) == Cardinality({mg[n].query_id :
                                    n \in {m \in idx : mg[m].gene_name = g}})
    IN  {HeadOf(t, TopGenes) :
            t \in SortedByCount(
                    {[gene_name |-> g, count |-> count(g)]
                        : g \in {mg[n].gene_name : n \in idx}},
                    "count")}

\* analyze_gene_abundance, lines 153-158
KeyGeneNames == {"pmoA", "mmoX", "mcrA", "mxaF"}
key_genes ==
    [g \in KeyGeneNames |->
        CASE g = "pmoA" -> {"pmoa", "particulate methane monooxygenase"}
          [] g = "mmoX" -> {"mmox", "soluble methane monooxygenase"}
          [] g = "mcrA" -> {"mcra", "methyl-coenzyme m reductase"}
          [] g = "mxaF" -> {"mxaf", "methanol dehydrogenase"}]

\* the presence test with the rows the classifier kept in place of all rows
KeyGeneMatchesKept(rows, keywords) ==
    {n \in 1..Len(rows) :
        /\ classify_methane_gene(rows[n].description) # CatOther
        /\ ContainsAny(LowerAll(rows[n].description), keywords)}

\* df[df['description'].str.lower().str.contains('|'.join(keywords))]
KeyGeneMatches(rows, keywords) ==
    {n \in 1..Len(rows) : ContainsAny(LowerAll(rows[n].description), keywords)}

\* analyze_gene_abundance, lines 160-167: per key gene, detected or not and
\* the distinct query ids of the matching rows
KeyGeneReport(rows) ==
    [g \in KeyGeneNames |->
        LET matches == KeyGeneMatches(rows, key_genes[g])
        IN  IF Cardinality(matches) > 0
            THEN [detected |-> TRUE,
                  unique_reads |-> Cardinality({rows[n].query_id : n \in matches})]
            ELSE [detected |-> FALSE, unique_reads |-> 0]]

\* what analyze_gene_abundance prints, section by section
GeneReports(rows) ==
    {[category_counts |-> c, gene_counts |-> g, key_genes |-> KeyGeneReport(rows)]
        : c \in CategoryCounts(rows), g \in GeneCounts(rows)}

\* analyze_species_abundance with a SingleM table: groupby('species') with
\* num_hits and coverage summed, sorted by num_hits
SpeciesFromSinglem(table) ==
    LET idx == 1..Len(table.rows)
        names == {table.rows[n].levels["species"] : n \in idx}
        of(sp) == {n \in idx : table.rows[n].levels["species"] = sp}
    IN  SortedByCount(
            {[species |-> sp,
              num_hits |-> SumOver(of(sp), [n \in of(sp) |-> table.rows[n].num_hits]),
              coverage |-> SumOver(of(sp), [n \in of(sp) |-> table.rows[n].coverage])]
                : sp \in names},
            "num_hits")

\* analyze_species_abundance without one: distinct query ids per species taken
\* from the bracket of the description, sorted by that count
SpeciesFromDiamond(rows) ==
    LET idx == 1..Len(rows)
        sp(n) == extract_gene_info(rows[n].description).species
        names == {sp(n) : n \in idx}
    IN  SortedByCount(
            {[species |-> name,
              query_id |-> Cardinality({rows[n].query_id :
                                           n \in {m \in idx : sp(m) = name}})]
                : name \in names},
            "query_id")

\* the genus-level table built from every record, whatever its species
GenusFromAllRows(table) ==
    LET idx == 1..Len(table.rows)
        of(g) == {n \in idx : table.rows[n].levels["genus"] = g}
    IN  SortedByCount(
            {[genus |-> g,
              num_hits |-> SumOver(of(g), [n \in of(g) |-> table.rows[n].num_hits]),
              coverage |-> SumOver(of(g), [n \in of(g) |-> table.rows[n].coverage])]
                : g \in {table.rows[n].levels["genus"] : n \in idx}},
            "num_hits")

\* analyze_species_abundance, lines 187-190: the records whose species is
\* 'Unknown', grouped by genus, num_hits and coverage summed, sorted by
\* num_hits
GenusFromSinglem(table) ==
    LET idx == {n \in 1..Len(table.rows) : table.rows[n].levels["species"] = Unknown}
        of(g) == {n \in idx : table.rows[n].levels["genus"] = g}
    IN  SortedByCount(
            {[genus |-> g,
              num_hits |-> SumOver(of(g), [n \in of(g) |-> table.rows[n].num_hits]),
              coverage |-> SumOver(of(g), [n \in of(g) |-> table.rows[n].coverage])]
                : g \in {table.rows[n].levels["genus"] : n \in idx}},
            "num_hits")

\* genus_abundance exists on the SingleM branch only
GenusAbundance(table) ==
    IF ~table.isnone THEN GenusFromSinglem(table) ELSE {<<>>}

analyze_species_abundance(rows, table) ==
    IF ~table.isnone THEN SpeciesFromSinglem(table) ELSE SpeciesFromDiamond(rows)


----------------------------------------------------------------------------
(* SpecMain: one run of analyze_methane_genes.main.  A file's content is    *)
(* drawn when the run reads the file.                                       *)

MaxLines == 2
MaxOtus == 2

ArgvValues ==
    {[len |-> n, total_reads |-> ""] : n \in 1..3}
      \cup {[len |-> 4, total_reads |-> t] : t \in FloatTexts \cup {"abc"}}

StatsLinePool ==
    { <<"#Total", "2000000">>, <<"#Total", "500000">>, <<"#Total", "0">>,
      <<"#Matched", "7">>, <<"#Total">>, <<"#Total", "abc">> }

StatsFiles ==
    {NoFile} \cup
    {[exists |-> TRUE, readable |-> TRUE, columns |-> {}, rows |-> lines] :
        lines \in UNION {[1..n -> StatsLinePool] : n \in 0..MaxLines}}

Hit(q, len, d) == [query_id |-> q, length |-> len, description |-> d]

DiamondFiles ==
    {NoFile} \cup
    {[exists |-> TRUE, readable |-> TRUE, columns |-> {}, rows |-> t] : t \in
        { <<Hit("q1", 2, <<"pmoa", " ", "[", "sp1", "]">>)>>,
          <<Hit("q1", 2, <<"x", " ", "[", "ammonia", "]">>),
            Hit("q2", 1, <<"x", " ", "[", "sp2", "]">>)>>,
          <<Hit("q1", 0, <<"formate", " ", "MmoR">>),
            Hit("q1", 1, <<"pmoa", " ", "[", "sp1", "]">>)>>,
          <<Hit("q2", 1, <<"x", " ", "[", "sp2", "]">>)>> }}

\* OTU rows: a lineage string, an empty cell, a cell that is not text
SinglemRowPool ==
    { [taxonomy |-> [isna |-> FALSE, isstr |-> TRUE,
                     text |-> <<"Root", ";", " ", "d__", "A", ";", " ", "s__", "A">>],
       num_hits |-> 2, coverage |-> 1],
      [taxonomy |-> [isna |-> TRUE, isstr |-> FALSE, text |-> <<>>],
       num_hits |-> 1, coverage |-> 1],
      [taxonomy |-> [isna |-> FALSE, isstr |-> FALSE, text |-> <<>>],
       num_hits |-> 1, coverage |-> 1] }

SinglemColumnSets ==
    { {"taxonomy", "num_hits", "coverage"}, {"num_hits", "coverage"},
      {"taxonomy", "coverage"} }

SinglemFiles ==
    {NoFile, [exists |-> TRUE, readable |-> FALSE, columns |-> {}, rows |-> <<>>]}
      \cup
    {[exists |-> TRUE, readable |-> TRUE, columns |-> c, rows |-> t] :
        c \in SinglemColumnSets,
        t \in UNION {[1..n -> SinglemRowPool] : n \in 0..MaxOtus}}

InitMain ==
    /\ pc = "start"
    /\ exit_code = "running"
    /\ console = <<>>
    /\ argv \in ArgvValues
    /\ stats_file = NoFile
    /\ input_file = NoFile
    /\ singlem_file = NoFile
    /\ singlem_df = None
    /\ methane_genes = <<>>
    /\ gene_report = NoReport
    /\ species_reads = <<>>
    /\ genus_abundance = <<>>
    /\ outputs = <<>>
    /\ IdleRpkm
    /\ IdleTax /\ IdleDesc /\ IdleVis

\* sys.exit(1) after a message
Exit(msg) ==
    /\ console' = Append(console, msg)
    /\ exit_code' = "1"
    /\ pc' = "exited"

\* an exception nothing catches: the traceback, then exit status 1
Raise(exception, where) ==
    /\ console' = Append(console, "Traceback: " \o exception \o " in " \o where)
    /\ exit_code' = "1"
    /\ pc' = "raised"

\* main, lines 336-346
MainCheckArgs ==
    /\ pc = "start"
    /\ IF argv.len < 3
       THEN Exit("Usage")
       ELSE pc' = "total_reads" /\ UNCHANGED <<console, exit_code>>
    /\ UNCHANGED <<rpkmVars, mainVars, MainFrame>>

\* main, lines 348-378
MainTotalReads ==
    /\ pc = "total_reads"
    /\ \E f \in IF argv.len > 3 THEN {NoFile} ELSE StatsFiles :
        /\ stats_file' = f
        /\ LET r == DetermineTotalReads(argv, f)
           IN  IF r.outcome = "ok"
               THEN /\ total_reads_millions' = r.value
                    /\ console' = console \o <<r.message, "METHANE GENE ANALYSIS">>
                    /\ pc' = "parse_diamond"
                    /\ UNCHANGED exit_code
               ELSE /\ console' = Append(console, r.message)
                    /\ exit_code' = "1"
                    /\ pc' = IF r.outcome = "exit" THEN "exited" ELSE "raised"
                    /\ UNCHANGED total_reads_millions
    /\ UNCHANGED <<df, gene_stats, argv, input_file, singlem_file, singlem_df,
                   methane_genes, gene_report, species_reads, genus_abundance, outputs, MainFrame>>

\* main, line 381: parse_diamond_results
ParseDiamondResults ==
    /\ pc = "parse_diamond"
    /\ \E f \in DiamondFiles :
        /\ input_file' = f
        /\ IF ~f.exists
           THEN Raise("FileNotFoundError: input_file", "parse_diamond_results")
                  /\ UNCHANGED df
           ELSE /\ df' = f.rows
                /\ pc' = "parse_singlem"
                /\ UNCHANGED <<console, exit_code>>
    /\ UNCHANGED <<total_reads_millions, gene_stats, argv, stats_file,
                   singlem_file, singlem_df, methane_genes, gene_report, species_reads, genus_abundance,
                   outputs, MainFrame>>

\* main, line 384: parse_singlem_otu_table
ParseSinglemOtuTable ==
    /\ pc = "parse_singlem"
    /\ \E f \in SinglemFiles :
        /\ singlem_file' = f
        /\ LET r == parse_singlem_otu_table(f)
           IN  IF r.raised # "none"
               THEN Raise(r.raised, "parse_singlem_otu_table")
                      /\ UNCHANGED singlem_df
               ELSE /\ singlem_df' = r.table
                    /\ console' = IF r.warning = "" THEN console
                                  ELSE Append(console, r.warning)
                    /\ pc' = "check_singlem"
                    /\ UNCHANGED exit_code
    /\ UNCHANGED <<rpkmVars, argv, stats_file, input_file, methane_genes, gene_report,
                   species_reads, genus_abundance, outputs, MainFrame>>

\* main, lines 385-388
MainCheckSinglem ==
    /\ pc = "check_singlem"
    /\ IF singlem_df.isnone
       THEN Exit("ERROR: Failed to load SingleM OTU table")
       ELSE /\ console' = Append(console, "Loaded SingleM OTU records")
            /\ pc' = "analyze_genes"
            /\ UNCHANGED exit_code
    /\ UNCHANGED <<rpkmVars, mainVars, MainFrame>>

\* main, line 391
AnalyzeGeneAbundance ==
    /\ pc = "analyze_genes"
    /\ methane_genes' = analyze_gene_abundance(df)
    /\ gene_report' \in GeneReports(df)
    /\ console' = Append(console, "FUNCTIONAL GENE ABUNDANCE ANALYSIS")
    /\ pc' = "analyze_species"
    /\ UNCHANGED <<exit_code, rpkmVars, argv, stats_file, input_file,
                   singlem_file, singlem_df, species_reads, genus_abundance, outputs, MainFrame>>

\* main, line 394; a table without its num_hits column raises KeyError
AnalyzeSpeciesAbundance ==
    /\ pc = "analyze_species"
    /\ IF ~singlem_df.isnone /\ ~({"num_hits", "coverage"} \subseteq singlem_file.columns)
       THEN Raise("KeyError", "analyze_species_abundance")
              /\ UNCHANGED <<species_reads, genus_abundance>>
       ELSE /\ species_reads' \in analyze_species_abundance(df, singlem_df)
            /\ genus_abundance' \in GenusAbundance(singlem_df)
            /\ console' = Append(console, "SPECIES/ORGANISM ABUNDANCE ANALYSIS")
            /\ pc' = "calculate_rpkm"
            /\ UNCHANGED exit_code
    /\ UNCHANGED <<rpkmVars, argv, stats_file, input_file, singlem_file,
                   singlem_df, methane_genes, gene_report, outputs, MainFrame>>

\* main, line 397
MainCalculateRpkm ==
    /\ pc = "calculate_rpkm"
    /\ gene_stats' \in calculate_rpkm(df, total_reads_millions)
    /\ console' = Append(console, "GENE ABUNDANCE NORMALIZATION (RPKM)")
    /\ pc' = "write_outputs"
    /\ UNCHANGED <<exit_code, df, total_reads_millions, mainVars, MainFrame>>

\* main, lines 399-422
MainWriteOutputs ==
    /\ pc = "write_outputs"
    /\ outputs' = <<"methane_genes_detailed.csv", "species_abundance.csv",
                    "gene_rpkm.csv">>
    /\ console' = Append(console, "ANALYSIS COMPLETE")
    /\ exit_code' = "0"
    /\ pc' = "complete"
    /\ UNCHANGED <<rpkmVars, argv, stats_file, input_file, singlem_file,
                   singlem_df, methane_genes, gene_report, species_reads, genus_abundance, MainFrame>>

NextMain ==
    \/ MainCheckArgs
    \/ MainTotalReads
    \/ ParseDiamondResults
    \/ ParseSinglemOtuTable
    \/ MainCheckSinglem
    \/ AnalyzeGeneAbundance
    \/ AnalyzeSpeciesAbundance
    \/ MainCalculateRpkm
    \/ MainWriteOutputs

SpecMain == InitMain /\ [][NextMain]_vars


----------------------------------------------------------------------------
(* Properties of the analysis entry point                                   *)

ReachedRpkm == pc \in {"calculate_rpkm", "write_outputs", "complete"}

\* C8: in every run that reaches the RPKM computation total_reads_millions is
\* positive: the command-line override is a positive real, and without an
\* override the value is the integer of the first "#Total" line of the
\* statistics file divided by 1,000,000; zero or a negative value never
\* reaches calculate_rpkm.
C8_TotalReadsPositive ==
    ReachedRpkm =>
        /\ total_reads_millions.num > 0
        /\ total_reads_millions.den > 0
        /\ argv.len <= 3 =>
              /\ TotalLine(stats_file.rows) > 0
              /\ total_reads_millions =
                    Fraction(ParseInt(stats_file.rows[TotalLine(stats_file.rows)][2]),
                             1000000)

ExceptionKinds == {"FileNotFoundError", "ParserError", "KeyError", "AttributeError"}

NotFoundWarning == "WARNING: SingleM file not found: singlem_file"
ParseWarning(e) == "WARNING: Error parsing SingleM file: " \o e

\* the cell of every row is one extract_taxonomy_levels accepts
EveryRowParses(file) ==
    \A n \in 1..Len(file.rows) :
        file.rows[n].taxonomy.isna \/ file.rows[n].taxonomy.isstr

\* C9: parse_singlem_otu_table never lets an exception out.  For a missing
\* file it prints the warning that names the path and returns None; when
\* reading or parsing fails (a table without a taxonomy column included) it
\* prints the warning that names the error and returns None; it returns a
\* table only when every row was parsed, and then each row carries the ranks
\* extract_taxonomy_levels gives for its lineage.
C9_ParseNeverRaises ==
    /\ \A e \in ExceptionKinds :
          ~Printed("Traceback: " \o e \o " in parse_singlem_otu_table")
    /\ pc = "check_singlem" =>
          /\ ~singlem_file.exists =>
                singlem_df = None /\ Printed(NotFoundWarning)
          /\ (singlem_file.exists
                /\ (~singlem_file.readable
                      \/ "taxonomy" \notin singlem_file.columns
                      \/ ~EveryRowParses(singlem_file))) =>
                /\ singlem_df = None
                /\ \E e \in ExceptionKinds \ {"FileNotFoundError"} :
                      Printed(ParseWarning(e))
          /\ ~singlem_df.isnone =>
                /\ singlem_file.exists /\ singlem_file.readable
                /\ "taxonomy" \in singlem_file.columns
                /\ EveryRowParses(singlem_file)
                /\ Len(singlem_df.rows) = Len(singlem_file.rows)
                /\ \A n \in 1..Len(singlem_df.rows) :
                      singlem_df.rows[n].levels
                        = extract_taxonomy_levels(singlem_file.rows[n].taxonomy)
                /\ \A e \in ExceptionKinds : ~Printed(ParseWarning(e))
                /\ ~Printed(NotFoundWarning)

\* a table that lacks its taxonomy column was read: None came back and the
\* warning names the KeyError
C9_NoTaxonomyColumnWarned ==
    /\ pc = "check_singlem"
    /\ singlem_file.exists /\ singlem_file.readable
    /\ "taxonomy" \notin singlem_file.columns
    /\ singlem_df = None
    /\ Printed(ParseWarning("KeyError"))

\* parse_singlem_otu_table has returned None to main
TaxonomyAbsent ==
    /\ singlem_df.isnone
    /\ Printed(NotFoundWarning) \/ \E e \in ExceptionKinds : Printed(ParseWarning(e))

\* C10: when the taxonomic table is missing or fails to parse the run does
\* not abort: it goes on with the species estimate taken from the hit
\* descriptions (distinct query ids per bracket species), reaches completion
\* and writes the species-abundance table from that estimate.
C10_FallbackOnAbsentTaxonomy ==
    (TaxonomyAbsent /\ pc # "check_singlem") =>
        /\ exit_code # "1"
        /\ pc \notin {"exited", "raised"}
        /\ pc \in {"calculate_rpkm", "write_outputs", "complete"} =>
              species_reads \in SpeciesFromDiamond(df)
        /\ pc = "complete" =>
              \E n \in 1..Len(outputs) : outputs[n] = "species_abundance.csv"



\* main has got past a step of the run
PastArgs == pc # "start"
PastTotalReads == pc \notin {"start", "total_reads"} /\ argv.len >= 3
PastDiamond == Printed("METHANE GENE ANALYSIS") /\ pc # "parse_diamond"

Fatal(msg) ==
    /\ pc \in {"exited", "raised"}
    /\ exit_code = "1"
    /\ Printed(msg)
    /\ outputs = <<>>

\* C11: the three CSV outputs are written only after the arguments were
\* accepted, total reads were determined and the hit table was loaded.  Fewer
\* than two positional arguments: usage message, exit status 1.  No override
\* and no statistics file, or no "#Total" line in it: exit status 1 with the
\* message that says what is missing.  A missing hit-table file: the run ends
\* with status 1 and the path in the error.  In each of these no output file
\* is written.
C11_OutputsAfterValidation ==
    /\ outputs # <<>> =>
          /\ pc = "complete" /\ exit_code = "0"
          /\ argv.len >= 3
          /\ Printed("Using provided total reads")
                \/ Printed("Auto-detected from bbduk stats")
          /\ input_file.exists /\ df = input_file.rows
          /\ outputs = <<"methane_genes_detailed.csv", "species_abundance.csv",
                         "gene_rpkm.csv">>
    /\ (PastArgs /\ argv.len < 3) => Fatal("Usage")
    /\ (PastTotalReads /\ argv.len = 3 /\ ~stats_file.exists) =>
          Fatal("ERROR: BBduk stats file not found; provide total_reads_millions")
    /\ (PastTotalReads /\ argv.len = 3 /\ stats_file.exists
          /\ TotalLine(stats_file.rows) = 0) =>
          Fatal("ERROR: Could not find #Total line")
    /\ (PastDiamond /\ ~input_file.exists) =>
          Fatal("Traceback: FileNotFoundError: input_file in parse_diamond_results")

\* a run that got as far as reading the hit table and found no file
C11_MissingHitTableFatal ==
    /\ PastDiamond /\ ~input_file.exists
    /\ pc = "raised" /\ exit_code = "1"
    /\ outputs = <<>>


----------------------------------------------------------------------------
(* SpecGenes: analyze_gene_abundance applied to one hit table               *)

MaxGeneHits == 3

GeneDescPool ==
    { <<"pmoa", " ", "[", "sp1", "]">>,
      <<"mxaf", " ", "[", "sp1", "]">>,
      <<"methanol dehydrogenase", " ", "PmoA">>,
      <<"mmox">>,
      <<"x", " ", "[", "sp2", "]">> }

GeneHits == {Hit(q, 1, d) : q \in QueryIds, d \in GeneDescPool}

GeneHitTables == UNION {[1..n -> GeneHits] : n \in 1..MaxGeneHits}

InitGenes ==
    /\ pc = "call"
    /\ exit_code = "running"
    /\ console = <<>>
    /\ df \in GeneHitTables
    /\ total_reads_millions = [num |-> 1, den |-> 1]
    /\ gene_stats = <<>>
    /\ IdleMain
    /\ IdleTax /\ IdleDesc /\ IdleVis

\* analyze_gene_abundance(df)
AnalyzeGeneAbundanceCall ==
    /\ pc = "call"
    /\ methane_genes' = analyze_gene_abundance(df)
    /\ gene_report' \in GeneReports(df)
    /\ console' = Append(console, "FUNCTIONAL GENE ABUNDANCE ANALYSIS")
    /\ pc' = "return"
    /\ UNCHANGED <<exit_code, rpkmVars, argv, stats_file, input_file,
                   singlem_file, singlem_df, species_reads, genus_abundance, outputs, MainFrame>>

NextGenes == AnalyzeGeneAbundanceCall

SpecGenes == InitGenes /\ [][NextGenes]_vars

\* the rows of df whose lower-cased description holds a keyword of the gene
RowsNaming(g) ==
    {n \in 1..Len(df) :
        \E k \in key_genes[g] : Contains(LowerAll(df[n].description), k)}

\* C12: the key-gene check does not depend on the classifier.  Each of pmoA,
\* mmoX, mcrA, mxaF is reported detected exactly when some hit of the whole
\* table (hits classified "Other" or under another category included) has a
\* lower-cased description holding one of the gene's keywords; the count
\* reported is the number of distinct query ids of those hits; otherwise the
\* gene is reported not detected.
C12_KeyGenePresence ==
    pc = "return" =>
        \A g \in KeyGeneNames :
            /\ gene_report.key_genes[g].detected <=> RowsNaming(g) # {}
            /\ gene_report.key_genes[g].detected =>
                  gene_report.key_genes[g].unique_reads
                    = Cardinality({df[n].query_id : n \in RowsNaming(g)})

\* mxaF is detected from a hit the classifier put under "Other"
C12_DetectedInOtherHit ==
    /\ pc = "return"
    /\ gene_report.key_genes["mxaF"].detected
    /\ \A n \in RowsNaming("mxaF") :
          classify_methane_gene(df[n].description) = CatOther
    /\ ~gene_report.key_genes["pmoA"].detected


\* the hits of df the classifier does not put under "Other", in table order
KeptHits == SelectSeq(df, LAMBDA r : classify_methane_gene(r.description) # CatOther)
KeptInCategory(c) ==
    {n \in 1..Len(KeptHits) : classify_methane_gene(KeptHits[n].description) = c}
QueriesOf(hits, rows) == {hits[n].query_id : n \in rows}

\* C13: category abundance leaves out every hit classified "Other"; for each
\* category left it reports the number of distinct query ids with a hit in
\* the category, and as percentage that number over the number of distinct
\* query ids of all non-"Other" hits; the table returned holds exactly the
\* non-"Other" hits.
C13_CategoryAbundance ==
    pc = "return" =>
        LET cc == gene_report.category_counts
            total == Cardinality(QueriesOf(KeptHits, 1..Len(KeptHits)))
        IN  /\ Len(methane_genes) = Len(KeptHits)
            /\ \A n \in 1..Len(KeptHits) :
                  /\ methane_genes[n].query_id = KeptHits[n].query_id
                  /\ methane_genes[n].length = KeptHits[n].length
                  /\ methane_genes[n].description = KeptHits[n].description
                  /\ methane_genes[n].gene_category # CatOther
            /\ {cc[i].gene_category : i \in 1..Len(cc)}
                  = {classify_methane_gene(KeptHits[n].description) :
                        n \in 1..Len(KeptHits)}
            /\ \A i, j \in 1..Len(cc) :
                  cc[i].gene_category = cc[j].gene_category => i = j
            /\ \A i \in 1..Len(cc) :
                  /\ cc[i].gene_category # CatOther
                  /\ cc[i].count
                       = Cardinality(QueriesOf(KeptHits, KeptInCategory(cc[i].gene_category)))
                  /\ cc[i].pct.den > 0
                  /\ cc[i].pct.num * total = cc[i].count * 100 * cc[i].pct.den

\* a table with an "Other" hit and one query id that has hits in two
\* categories
C13_QuerySharedByCategories ==
    /\ pc = "return"
    /\ Len(methane_genes) < Len(df)
    /\ Len(gene_report.category_counts) = 2
    /\ \A i \in 1..2 : gene_report.category_counts[i].pct = [num |-> 100, den |-> 1]


\* the category names in lexicographic (code point) order
CategoryNameOrder ==
    <<CatFormaldehyde, CatFormate, CatMCR, CatMDH, CatMmoG, CatMmoR,
      CatNitrogen, CatOther, CatPMMO, CatSMMO>>
NameRank(c) == CHOOSE i \in 1..Len(CategoryNameOrder) : CategoryNameOrder[i] = c

\* C14: the order of the sorted tables is fixed under ties: groups with equal
\* sort value come in lexicographic order of their names, so the table a run
\* prints depends on the rows of the input only, not on how the sort breaks
\* the tie.  Stated for the category table: descending by count, and by name
\* among equal counts.
C14_TiesOrderedByName ==
    pc = "return" =>
        LET cc == gene_report.category_counts
        IN  \A i, j \in 1..Len(cc) :
                i < j =>
                    \/ cc[i].count > cc[j].count
                    \/ /\ cc[i].count = cc[j].count
                       /\ NameRank(cc[i].gene_category) < NameRank(cc[j].gene_category)


----------------------------------------------------------------------------
(* SpecSpecies: analyze_species_abundance applied to one pair of tables     *)

MaxOtuRows == 3

Lineage(text) == [isna |-> FALSE, isstr |-> TRUE, text |-> text]

OtuPool ==
    { [taxonomy |-> Lineage(<<"g__", "G1", ";", " ", "s__", "S1">>),
       num_hits |-> 2, coverage |-> 1],
      [taxonomy |-> Lineage(<<"g__", "G1", ";", " ", "s__", "S2">>),
       num_hits |-> 1, coverage |-> 2],
      [taxonomy |-> Lineage(<<"d__", "A", ";", " ", "g__", "G1">>),
       num_hits |-> 1, coverage |-> 1],
      [taxonomy |-> Lineage(<<"d__", "A", ";", " ", "g__", "G2">>),
       num_hits |-> 2, coverage |-> 2],
      [taxonomy |-> [isna |-> TRUE, isstr |-> FALSE, text |-> <<>>],
       num_hits |-> 1, coverage |-> 1] }

OtuTables ==
    {[isnone |-> FALSE, rows |-> WithLevels(t)] :
        t \in UNION {[1..n -> OtuPool] : n \in 0..MaxOtuRows}}

SpeciesHitTables ==
    { <<Hit("q1", 1, <<"pmoa", " ", "[", "sp1", "]">>),
        Hit("q2", 1, <<"mmox", " ", "[", "sp1", "]">>),
        Hit("q2", 1, <<"x", " ", "[", "sp2", "]">>)>>,
      <<Hit("q1", 1, <<"pmoa">>)>> }

InitSpecies ==
    /\ pc = "call"
    /\ exit_code = "running"
    /\ console = <<>>
    /\ df \in SpeciesHitTables
    /\ total_reads_millions = [num |-> 1, den |-> 1]
    /\ gene_stats = <<>>
    /\ argv = [len |-> 0, total_reads |-> ""]
    /\ stats_file = NoFile
    /\ input_file = NoFile
    /\ singlem_file = NoFile
    /\ singlem_df \in {None} \cup OtuTables
    /\ methane_genes = <<>>
    /\ gene_report = NoReport
    /\ species_reads = <<>>
    /\ genus_abundance = <<>>
    /\ outputs = <<>>
    /\ IdleTax /\ IdleDesc /\ IdleVis

\* analyze_species_abundance(df, singlem_df)
AnalyzeSpeciesAbundanceCall ==
    /\ pc = "call"
    /\ species_reads' \in analyze_species_abundance(df, singlem_df)
    /\ genus_abundance' \in GenusAbundance(singlem_df)
    /\ console' = Append(console, "SPECIES/ORGANISM ABUNDANCE ANALYSIS")
    /\ pc' = "return"
    /\ UNCHANGED <<exit_code, rpkmVars, argv, stats_file, input_file,
                   singlem_file, singlem_df, methane_genes, gene_report,
                   outputs, MainFrame>>

NextSpecies == AnalyzeSpeciesAbundanceCall

SpecSpecies == InitSpecies /\ [][NextSpecies]_vars

\* the sum of a column over a set of rows of a table
ColumnSum(t, rows, column) == SumOver(rows, [n \in rows |-> t[n][column]])

OtuRowsOf(rank, name) ==
    {n \in 1..Len(singlem_df.rows) : singlem_df.rows[n].levels[rank] = name}
UnknownSpeciesRows == OtuRowsOf("species", Unknown)

Descending(t, column) ==
    \A i, j \in 1..Len(t) : i < j => t[i][column] >= t[j][column]

\* C15: with a taxonomic table, the species table has one row per value of
\* the species field, carrying the sum of num_hits and the sum of coverage of
\* the records of that species, in descending order of num_hits, so its
\* num_hits add up to the total of the table; the genus table is built from
\* the records whose species is "Unknown" only, one row per genus of those
\* records, with the same sums and order.
C15_SpeciesAndGenusSums ==
    (pc = "return" /\ ~singlem_df.isnone) =>
        LET otu == singlem_df.rows
            sp == species_reads
            ge == genus_abundance
        IN  /\ {sp[i].species : i \in 1..Len(sp)}
                  = {otu[n].levels["species"] : n \in 1..Len(otu)}
            /\ \A i, j \in 1..Len(sp) : sp[i].species = sp[j].species => i = j
            /\ \A i \in 1..Len(sp) :
                  /\ sp[i].num_hits
                       = ColumnSum(otu, OtuRowsOf("species", sp[i].species), "num_hits")
                  /\ sp[i].coverage
                       = ColumnSum(otu, OtuRowsOf("species", sp[i].species), "coverage")
            /\ Descending(sp, "num_hits")
            /\ ColumnSum(sp, 1..Len(sp), "num_hits")
                  = ColumnSum(otu, 1..Len(otu), "num_hits")
            /\ {ge[i].genus : i \in 1..Len(ge)}
                  = {otu[n].levels["genus"] : n \in UnknownSpeciesRows}
            /\ \A i, j \in 1..Len(ge) : ge[i].genus = ge[j].genus => i = j
            /\ \A i \in 1..Len(ge) :
                  /\ ge[i].num_hits
                       = ColumnSum(otu, UnknownSpeciesRows
                                          \cap OtuRowsOf("genus", ge[i].genus), "num_hits")
                  /\ ge[i].coverage
                       = ColumnSum(otu, UnknownSpeciesRows
                                          \cap OtuRowsOf("genus", ge[i].genus), "coverage")
            /\ Descending(ge, "num_hits")

\* a genus that has a record with a named species and a record without one:
\* only the second counts in the genus table
C15_GenusOfNamedSpeciesLeftOut ==
    /\ pc = "return" /\ ~singlem_df.isnone
    /\ Len(species_reads) >= 2
    /\ \E i \in 1..Len(genus_abundance) :
          /\ genus_abundance[i].genus # Unknown
          /\ genus_abundance[i].num_hits
               < ColumnSum(singlem_df.rows,
                           OtuRowsOf("genus", genus_abundance[i].genus), "num_hits")


\* the lineage string with its segments that carry no recognized prefix
\* taken out
WithoutMalformed(ts) ==
    [isna |-> FALSE,
     text |-> Join(SelectSeq(Split(ts.text, ";"), LAMBDA part : Recognized(Strip(part))),
                   ";")]

\* C16: a segment with no recognized rank prefix is ignored: the call
\* returns, the segment fills no rank, and every rank has the value the
\* string without that segment gives it.
C16_MalformedIgnored ==
    (pc = "return" /\ ~tax_string.isna) =>
        LET parts == StrippedParts(tax_string)
        IN  /\ DOMAIN levels = Ranks
            /\ levels = extract_taxonomy_levels(WithoutMalformed(tax_string))
            /\ (\A n \in 1..Len(parts) : ~Recognized(parts[n]))
                  => levels = DefaultLevels

\* a string with a segment "k__A" or "A" next to a recognized segment
C16_MalformedNextToRecognized ==
    /\ pc = "return" /\ ~tax_string.isna
    /\ LET parts == StrippedParts(tax_string)
       IN  /\ \E n \in 1..Len(parts) :
                 ~Recognized(parts[n]) /\ parts[n] \notin {<<>>, Root}
           /\ \E n \in 1..Len(parts) : Recognized(parts[n])
    /\ levels # DefaultLevels


\* what visualize_results.main tests before it reads a table
VisInputsPresent ==
    /\ vis_argv >= 2
    /\ {"output_dir", "detailed_file", "species_file", "rpkm_file"} \subseteq vis_files

\* main has got past the test that fails on the inputs at hand
VisPastFailingTest ==
    \/ pc # "start" /\ vis_argv < 2
    \/ pc \notin {"start", "check_dir"} /\ "output_dir" \notin vis_files
    \/ pc \notin {"start", "check_dir", "check_files"} /\ ~VisInputsPresent

PlotOrder ==
    <<"gene_category_contribution.png", "species_contribution.png",
      "procrustes_analysis.png", "gene_rpkm_heatmap.png">>
PlotRank(image) == CHOOSE i \in 1..Len(PlotOrder) : PlotOrder[i] = image

\* C17: no image is rendered unless the sample argument was given, the
\* output directory exists and the three CSV tables exist; when one of these
\* is missing the run exits with status 1 before a table is read or a plot
\* made; otherwise the plots are made in the order category contribution,
\* species contribution, reconciliation, RPKM heatmap.
C17_PlotsAfterInputChecks ==
    /\ (artifacts # <<>> \/ Printed("Loaded")) => VisInputsPresent
    /\ VisPastFailingTest =>
          /\ pc = "exited" /\ exit_code = "1"
          /\ artifacts = <<>>
          /\ detailed_df = <<>> /\ species_df = <<>>
          /\ ~Printed("Loaded")
    /\ \A i \in 1..Len(artifacts) : \E k \in 1..Len(PlotOrder) : artifacts[i] = PlotOrder[k]
    /\ \A i, j \in 1..Len(artifacts) :
          i < j => PlotRank(artifacts[i]) < PlotRank(artifacts[j])
    /\ pc \in {"plot_species", "plot_procrustes", "plot_heatmap", "report", "complete"}
          => Saved(PlotOrder[1])
    /\ AfterProcrustes =>
          /\ Saved(PlotOrder[2])
          /\ Saved(PlotOrder[3]) \/ \E n \in 0..2 : Printed(SkipWarning(n))
    /\ pc \in {"report", "complete"} => Saved(PlotOrder[4])
    /\ pc = "plot_category" => artifacts = <<>>
    /\ pc \in {"plot_species", "plot_procrustes"} => ~Saved(PlotOrder[3])
    /\ pc \in {"plot_species", "plot_procrustes", "plot_heatmap"}
          => ~Saved(PlotOrder[4])

\* the directory and two tables are there, the RPKM table is not
C17_MissingRpkmTable ==
    /\ vis_argv >= 2
    /\ vis_files = {"output_dir", "detailed_file", "species_file"}
    /\ pc = "exited" /\ exit_code = "1"
    /\ Printed("ERROR: rpkm_file not found")
    /\ artifacts = <<>>


====
